---------------------------- MODULE Spec2Model ----------------------------
(***************************************************************************)
(* Model of the review ETL pipeline:                                       *)
(*   convert_jsonl_to_csv.py  (reader, normalizer, chunked CSV writer)     *)
(*   data_ingestion.py        (schema setup, batched load into ClickHouse) *)
(*                                                                         *)
(* Python strings are sequences of one-character strings, so that str(),   *)
(* lower(), replace(), split()/join(), float() and int() are computed      *)
(* character by character as the interpreter computes them.                *)
(***************************************************************************)
EXTENDS Integers, Sequences, FiniteSets, TLC

(***************************************************************************)
(* Values produced by json.loads.  Every value is a record of one shape:   *)
(*   t  the Python type: "str" "int" "float" "bool" "NoneType" "list"      *)
(*      "dict"                                                             *)
(*   s  str: its characters; float: the digits after the point;            *)
(*      list/dict: the characters of its repr; big int: its digits         *)
(*   n  int: its value; float: the integer part of its magnitude;          *)
(*      bool: 1/0; list/dict: its number of items                          *)
(*   x  "" normally; int: "big" for an integer literal whose magnitude     *)
(*      exceeds the largest float (a 1 followed by 309 zeros);             *)
(*      float: "-" when negative, "inf" or "nan" (json.loads reads 1e999   *)
(*      and Infinity as inf, NaN as nan)                                   *)
(***************************************************************************)
PyStrV(s) == [t |-> "str", s |-> s, n |-> 0, x |-> ""]
PyIntV(n) == [t |-> "int", s |-> <<>>, n |-> n, x |-> ""]
BigDigits == [i \in 1..310 |-> IF i = 1 THEN "1" ELSE "0"]
PyBigInt == [t |-> "int", s |-> BigDigits, n |-> 0, x |-> "big"]
PyFloatV(n, frac) == [t |-> "float", s |-> frac, n |-> n, x |-> ""]
PyNegFloatV(n, frac) == [t |-> "float", s |-> frac, n |-> n, x |-> "-"]
PyInf == [t |-> "float", s |-> <<>>, n |-> 0, x |-> "inf"]
PyNan == [t |-> "float", s |-> <<>>, n |-> 0, x |-> "nan"]
PyBool(b) == [t |-> "bool", s |-> <<>>, n |-> IF b THEN 1 ELSE 0, x |-> ""]
PyNone == [t |-> "NoneType", s |-> <<>>, n |-> 0, x |-> ""]
PyList(n, repr) == [t |-> "list", s |-> repr, n |-> n, x |-> ""]
PyDict(n, repr) == [t |-> "dict", s |-> repr, n |-> n, x |-> ""]

\* A key that the decoded object does not hold (dict.get falls to its default).
Absent == [t |-> "absent", s |-> <<>>, n |-> 0, x |-> ""]

Digits == <<"0", "1", "2", "3", "4", "5", "6", "7", "8", "9">>
UpperCase == <<"A", "B", "C", "D", "E", "F", "G", "H", "I", "J", "K", "L", "M",
               "N", "O", "P", "Q", "R", "S", "T", "U", "V", "W", "X", "Y", "Z">>
LowerCase == <<"a", "b", "c", "d", "e", "f", "g", "h", "i", "j", "k", "l", "m",
               "n", "o", "p", "q", "r", "s", "t", "u", "v", "w", "x", "y", "z">>
WhiteSpace == {" ", "\n", "\r", "\t"}

IsDigit(c) == \E i \in 1..10 : Digits[i] = c
DigitVal(c) == (CHOOSE i \in 1..10 : Digits[i] = c) - 1

\* bool(v): Python truth value
Truthy(v) ==
  CASE v.t = "str" -> v.s # <<>>
    [] v.t = "int" -> v.n # 0 \/ v.x = "big"
    [] v.t = "float" -> v.x \in {"inf", "nan"} \/ v.n # 0
                        \/ \E i \in 1..Len(v.s) : v.s[i] # "0"
    [] v.t = "bool" -> v.n = 1
    [] v.t = "list" -> v.n > 0
    [] v.t = "dict" -> v.n > 0
    [] OTHER -> FALSE

\* the decimal digits of a natural number
RECURSIVE NatChars(_)
NatChars(n) ==
  IF n < 10 THEN <<Digits[n + 1]>>
  ELSE NatChars(n \div 10) \o <<Digits[(n % 10) + 1]>>

IntChars(n) == IF n < 0 THEN <<"-">> \o NatChars(0 - n) ELSE NatChars(n)

\* str(v)
PyStr(v) ==
  CASE v.t = "str" -> v.s
    [] v.t = "int" -> IF v.x = "big" THEN v.s ELSE IntChars(v.n)
    [] v.t = "float" ->
         IF v.x = "inf" THEN <<"i", "n", "f">>
         ELSE IF v.x = "nan" THEN <<"n", "a", "n">>
         ELSE (IF v.x = "-" THEN <<"-">> ELSE <<>>) \o NatChars(v.n) \o <<".">> \o v.s
    [] v.t = "bool" -> IF v.n = 1 THEN <<"T", "r", "u", "e">>
                       ELSE <<"F", "a", "l", "s", "e">>
    [] v.t = "NoneType" -> <<"N", "o", "n", "e">>
    [] OTHER -> v.s

\* str.lower(), one character
LowerChar(c) ==
  IF \E i \in 1..26 : UpperCase[i] = c
  THEN LowerCase[CHOOSE i \in 1..26 : UpperCase[i] = c]
  ELSE c

\* str.lower()
Lower(s) == [i \in 1..Len(s) |-> LowerChar(s[i])]

\* str.replace(old, new) for a one-character old
Replace(s, old, new) == [i \in 1..Len(s) |-> IF s[i] = old THEN new ELSE s[i]]

\* str.strip()
RECURSIVE LStrip(_)
LStrip(s) == IF s # <<>> /\ Head(s) \in WhiteSpace THEN LStrip(Tail(s)) ELSE s
RECURSIVE RStrip(_)
RStrip(s) ==
  IF s # <<>> /\ s[Len(s)] \in WhiteSpace THEN RStrip(SubSeq(s, 1, Len(s) - 1)) ELSE s
Strip(s) == RStrip(LStrip(s))

\* ' '.join(s.split()): the words of s, separated by one space each.  Of each
\* run of whitespace inside the stripped text only the first character stays,
\* as a space.
JoinSplit(s) ==
  LET t == Strip(s)
      marked == [i \in 1..Len(t) |->
                   IF t[i] \in WhiteSpace
                   THEN (IF t[i - 1] \in WhiteSpace THEN "drop" ELSE " ")
                   ELSE t[i]]
  IN SelectSeq(marked, LAMBDA c : c # "drop")

(***************************************************************************)
(* float(v) and int(v).  The result is [exc, val]: exc is "" and val the   *)
(* converted value, or exc names the exception raised.  Numerals are       *)
(* [sign] digits [. digits], inf, infinity and nan; exponents and          *)
(* underscores are not among the inputs explored.                          *)
(***************************************************************************)
Returns(v) == [exc |-> "", val |-> v]
Raises(e) == [exc |-> e, val |-> PyNone]

AllDigits(s) == \A i \in 1..Len(s) : IsDigit(s[i])

RECURSIVE DigitsVal(_)
DigitsVal(s) ==
  IF s = <<>> THEN 0 ELSE 10 * DigitsVal(SubSeq(s, 1, Len(s) - 1)) + DigitVal(s[Len(s)])

Signed(s) == s # <<>> /\ Head(s) \in {"+", "-"}
Unsigned(s) == IF Signed(s) THEN Tail(s) ELSE s
DotAt(s) == IF \E i \in 1..Len(s) : s[i] = "."
            THEN CHOOSE i \in 1..Len(s) : s[i] = "." /\ \A j \in 1..(i - 1) : s[j] # "."
            ELSE Len(s) + 1

\* float() of a string
ParseFloat(s) ==
  LET t == Strip(s)
      neg == t # <<>> /\ Head(t) = "-"
      body == Lower(Unsigned(t))
      d == DotAt(body)
      ip == SubSeq(body, 1, d - 1)
      fp == SubSeq(body, d + 1, Len(body))
  IN IF body \in {<<"i", "n", "f">>, <<"i", "n", "f", "i", "n", "i", "t", "y">>}
       THEN Returns(PyInf)
     ELSE IF body = <<"n", "a", "n">> THEN Returns(PyNan)
     ELSE IF AllDigits(ip) /\ AllDigits(fp) /\ Len(ip) + Len(fp) > 0
       THEN Returns([t |-> "float", s |-> IF fp = <<>> THEN <<"0">> ELSE fp,
                     n |-> DigitsVal(ip), x |-> IF neg THEN "-" ELSE ""])
     ELSE Raises("ValueError")

\* int() of a string
ParseInt(s) ==
  LET t == Strip(s)
      neg == t # <<>> /\ Head(t) = "-"
      body == Unsigned(t)
  IN IF body # <<>> /\ AllDigits(body)
       THEN Returns(PyIntV(IF neg THEN 0 - DigitsVal(body) ELSE DigitsVal(body)))
     ELSE Raises("ValueError")

\* float(v)
PyFloat(v) ==
  CASE v.t = "str" -> ParseFloat(v.s)
    [] v.t = "int" ->
         IF v.x = "big" THEN Raises("OverflowError")
         ELSE IF v.n < 0 THEN Returns(PyNegFloatV(0 - v.n, <<"0">>))
         ELSE Returns(PyFloatV(v.n, <<"0">>))
    [] v.t = "float" -> Returns(v)
    [] v.t = "bool" -> Returns(PyFloatV(v.n, <<"0">>))
    [] OTHER -> Raises("TypeError")

\* int(v)
PyInt(v) ==
  CASE v.t = "str" -> ParseInt(v.s)
    [] v.t = "int" -> Returns(v)
    [] v.t = "float" ->
         IF v.x = "inf" THEN Raises("OverflowError")
         ELSE IF v.x = "nan" THEN Raises("ValueError")
         ELSE Returns(PyIntV(IF v.x = "-" THEN 0 - v.n ELSE v.n))
    [] v.t = "bool" -> Returns(PyIntV(v.n))
    [] OTHER -> Raises("TypeError")

\* json.dumps of a decoded object: its repr with JSON's double quotes
JsonDumps(v) == Replace(v.s, "'", "\"")

(***************************************************************************)
(* clean_and_flatten_record.  A raw record is what json.loads returned for *)
(* one line: [t, f] with t its Python type and, for a dict, f the value    *)
(* held under each key (Absent when the key is missing).                   *)
(***************************************************************************)
basic_fields == <<"overall", "verified", "reviewTime", "reviewerID", "asin", "style",
                  "reviewerName", "reviewText", "summary", "unixReviewTime">>
text_fields == <<"reviewText", "summary", "reviewerName">>
\* the keys of the cleaned record, in insertion order (the CSV header)
Header == basic_fields \o <<"images", "vote">>
Range(seq) == {seq[i] : i \in DOMAIN seq}
RawKeys == Range(Header)

EmptyStr == PyStrV(<<>>)
ZeroFloat == PyFloatV(0, <<"0">>)
NoRecord == [k \in RawKeys |-> PyNone]

\* record.get(key, default)
Get(record, key, default) == IF record.f[key] = Absent THEN default ELSE record.f[key]

\* lines 93-98
CleanImages(record) ==
  LET images == Get(record, "images", PyDict(0, <<"{", "}">>)) IN
  IF images.t = "dict"
  THEN (IF Truthy(images) THEN PyStrV(JsonDumps(images)) ELSE EmptyStr)
  ELSE (IF Truthy(images) THEN PyStrV(PyStr(images)) ELSE EmptyStr)

\* lines 101-102
CleanVote(record) ==
  LET vote == Get(record, "vote", EmptyStr) IN
  IF Truthy(vote) THEN PyStrV(PyStr(vote)) ELSE EmptyStr

\* lines 107-109
CleanText(v) ==
  IF Truthy(v) THEN PyStrV(JoinSplit(Replace(Replace(PyStr(v), "\n", " "), "\r", " ")))
  ELSE v

\* lines 112-115: ValueError and TypeError give 0.0, any other exception leaves
ConvertOverall(v) ==
  IF Truthy(v)
  THEN (LET r == PyFloat(v) IN
        IF r.exc \in {"ValueError", "TypeError"} THEN Returns(ZeroFloat) ELSE r)
  ELSE Returns(ZeroFloat)

\* lines 117-120
ConvertUnixReviewTime(v) ==
  IF Truthy(v)
  THEN (LET r == PyInt(v) IN
        IF r.exc \in {"ValueError", "TypeError"} THEN Returns(PyIntV(0)) ELSE r)
  ELSE Returns(PyIntV(0))

\* line 123 without .lower()
ConvertVerified_NoLower(v) ==
  PyBool(PyStr(v) \in {<<"t", "r", "u", "e">>, <<"1">>, <<"y", "e", "s">>})

\* line 123
ConvertVerified(v) ==
  PyBool(Lower(PyStr(v)) \in {<<"t", "r", "u", "e">>, <<"1">>, <<"y", "e", "s">>})

\* The result is [exc, rec]: exc is "" and rec the cleaned record, or exc names
\* the exception that leaves the function.
clean_and_flatten_record(record) ==
  IF record.t # "dict" THEN [exc |-> "AttributeError", rec |-> NoRecord]
  ELSE
    LET basic == [k \in Range(basic_fields) |-> Get(record, k, EmptyStr)]
        overall == ConvertOverall(basic["overall"])
        unix == ConvertUnixReviewTime(basic["unixReviewTime"])
        cleaned == [k \in RawKeys |->
                     CASE k = "images" -> CleanImages(record)
                       [] k = "vote" -> CleanVote(record)
                       [] k \in Range(text_fields) -> CleanText(basic[k])
                       [] k = "overall" -> overall.val
                       [] k = "unixReviewTime" -> unix.val
                       [] k = "verified" -> ConvertVerified(basic["verified"])
                       [] OTHER -> basic[k]]
    IN IF overall.exc # "" THEN [exc |-> overall.exc, rec |-> NoRecord]
       ELSE IF unix.exc # "" THEN [exc |-> unix.exc, rec |-> NoRecord]
       ELSE [exc |-> "", rec |-> cleaned]

(***************************************************************************)
(* The raw records explored.  SampleValues are values json.loads can put   *)
(* under a key; a raw record is the record of end-to-end scenario 1 with   *)
(* at most MaxOdd keys given a sample value (or removed), or a line whose  *)
(* JSON is not an object.                                                  *)
(***************************************************************************)
MaxOdd == 1

SampleStrings ==
  {
         PyStrV(<<>>),
         PyStrV(<<"t", "r", "u", "e">>),
         PyStrV(<<"T", "r", "u", "e">>),
         PyStrV(<<"T", "R", "U", "E">>),
         PyStrV(<<"y", "e", "s">>),
         PyStrV(<<"1">>),
         PyStrV(<<"0">>),
         PyStrV(<<"n", "o">>),
         PyStrV(<<"f", "a", "l", "s", "e">>),
         PyStrV(<<" ", "t", "r", "u", "e">>),
         PyStrV(<<"4">>),
         PyStrV(<<"4", ".", "5">>),
         PyStrV(<<"a", "b", "c">>),
         PyStrV(<<"G", "r", "e", "a", "t", "\n", "p", "r", "o", "d", "u", "c", "t">>),
         PyStrV(<<"a", " ", " ", "b", "\r", "\n", " ", "c", " ">>),
         PyStrV(<<"i", "n", "f">>),
         PyStrV(<<"1", "6", "0", "0", "0", "0", "0", "0", "0", "0">>)
  }

SampleValues ==
  SampleStrings \cup
  { PyIntV(0), PyIntV(1), PyIntV(5), PyIntV(0 - 3), PyBigInt,
    PyFloatV(4, <<"5">>), PyFloatV(1, <<"0">>), PyFloatV(0, <<"0">>), PyInf, PyNan,
    PyBool(TRUE), PyBool(FALSE), PyNone,
    PyList(0, <<"[", "]">>), PyList(1, <<"[", "'", "a", "'", "]">>),
    PyDict(0, <<"{", "}">>),
    PyDict(1, <<"{", "'", "S", "i", "z", "e", "'", ":", " ", "'", "L", "'", "}">>),
    Absent }

Scenario1 ==
  [k \in RawKeys |->
     CASE k = "overall" -> PyStrV(<<"4">>)
       [] k = "verified" -> PyStrV(<<"t", "r", "u", "e">>)
       [] k = "reviewText" -> PyStrV(<<"G", "r", "e", "a", "t", "\n", "p", "r", "o", "d", "u", "c", "t">>)
       [] k = "unixReviewTime" -> PyStrV(<<"1", "6", "0", "0", "0", "0", "0", "0", "0", "0">>)
       [] OTHER -> Absent]

RawDict(f) == [t |-> "dict", f |-> f]
RawOther(t) == [t |-> t, f |-> [k \in RawKeys |-> Absent]]

RECURSIVE Perturbed(_)
Perturbed(n) ==
  IF n = 0 THEN {Scenario1}
  ELSE LET prev == Perturbed(n - 1) IN
       prev \cup {[g EXCEPT ![k] = v] : g \in prev, k \in RawKeys, v \in SampleValues}

RawRecords ==
  {RawDict(g) : g \in Perturbed(MaxOdd)}
  \cup {RawOther(t) : t \in {"list", "int", "str", "NoneType"}}

(***************************************************************************)
(* State.                                                                  *)
(*   normalizer harness: raw, result, npc                                  *)
(*   convert_jsonl_to_csv: lines (the input file), chunk_size, pos (lines  *)
(*     consumed by read_jsonl_file), chunk_data, chunk_count,              *)
(*     total_records, csv_file (the destination's content), cpc;           *)
(*     yielded and writes record what the generator yielded and the        *)
(*     to_csv calls made in the current run                                *)
(*   data_ingestion: data_file (Amazon_Fashion.csv), batch_size, the sink  *)
(*     (db_exists, table_exists, parts: the table's data parts), lpc       *)
(*     (main's position), batch_count, total_rows_processed,               *)
(*     existing_count; run_no and completed count the runs started and     *)
(*     the runs that succeeded; created, failed_at and submitted record    *)
(*     the setup steps completed, the step that raised and the batches     *)
(*     handed to sql_write in the current run                              *)
(***************************************************************************)
VARIABLES raw, result, npc,
          lines, chunk_size, pos, chunk_data, chunk_count, total_records,
          csv_file, cpc, yielded, writes,
          data_file, batch_size, db_exists, table_exists, parts, lpc, run_no,
          completed, created, failed_at, existing_count, batch_count,
          total_rows_processed, submitted

nvars == <<raw, result, npc>>
cvars == <<lines, chunk_size, pos, chunk_data, chunk_count, total_records,
           csv_file, cpc, yielded, writes>>
svars == <<db_exists, table_exists, parts>>
rvars == <<lpc, created, failed_at, existing_count, batch_count,
           total_rows_processed, submitted>>
lvars == <<data_file, batch_size, run_no, completed, svars, rvars>>
vars == <<nvars, cvars, lvars>>

NoResult == [exc |-> "", rec |-> NoRecord]

NormIdle == /\ raw = RawOther("NoneType") /\ result = NoResult /\ npc = "idle"
ConvIdle ==
  /\ lines = <<>> /\ chunk_size = 1 /\ pos = 0 /\ chunk_data = <<>>
  /\ chunk_count = 0 /\ total_records = 0 /\ csv_file = <<>> /\ cpc = "idle"
  /\ yielded = <<>> /\ writes = <<>>

NoFile == [exists |-> FALSE, rows |-> <<>>]
RunIdle ==
  /\ lpc = "idle" /\ created = {} /\ failed_at = "" /\ existing_count = 0
  /\ batch_count = 0 /\ total_rows_processed = 0 /\ submitted = <<>>
LoadIdle ==
  /\ data_file = NoFile /\ batch_size = 1 /\ run_no = 0 /\ completed = 0
  /\ db_exists = FALSE /\ table_exists = FALSE /\ parts = <<>>
  /\ RunIdle

(***************************************************************************)
(* Normalizer harness: one raw record, one call.                           *)
(***************************************************************************)
InitNormalize ==
  /\ raw \in RawRecords /\ result = NoResult /\ npc = "call"
  /\ ConvIdle /\ LoadIdle

Normalize ==
  /\ npc = "call"
  /\ result' = clean_and_flatten_record(raw)
  /\ npc' = "done"
  /\ UNCHANGED <<raw, cvars, lvars>>

NextNormalize == Normalize
SpecNormalize == InitNormalize /\ [][NextNormalize]_vars

(***************************************************************************)
(* The input file.  A line is [text, doc]: doc indexes Docs when the line  *)
(* is the JSON text of that document (text then stands for that JSON       *)
(* text), and is 0 when the line is not valid JSON.                        *)
(***************************************************************************)
MaxLines == 3
MaxChunk == 2

Doc2 ==
  [k \in RawKeys |->
     CASE k = "overall" -> PyIntV(5)
       [] k = "verified" -> PyBool(FALSE)
       [] k = "asin" -> PyStrV(<<"B", "1">>)
       [] k = "summary" -> PyStrV(<<"o", "k">>)
       [] k = "unixReviewTime" -> PyIntV(1500000000)
       [] OTHER -> Absent]
DocInf == [Scenario1 EXCEPT !["unixReviewTime"] = PyInf]
Docs == <<RawDict(Scenario1), RawDict(Doc2), RawDict(DocInf)>>

JsonLine(d) == [text |-> <<"{", "}", "\n">>, doc |-> d]
BlankLine == [text |-> <<" ", " ", "\n">>, doc |-> 0]
BadLine == [text |-> <<"{", "n", "o", "t", " ", "v", "a", "l", "i", "d", " ", "j", "s", "o", "n", "\n">>, doc |-> 0]
LinePool == {BlankLine, BadLine} \cup {JsonLine(d) : d \in DOMAIN Docs}
InputFiles == UNION {[1..k -> LinePool] : k \in 0..MaxLines}

\* json.loads(line): [exc, val]
json_loads(text, doc) ==
  IF doc = 0 THEN [exc |-> "JSONDecodeError", val |-> RawOther("NoneType")]
  ELSE [exc |-> "", val |-> Docs[doc]]

(***************************************************************************)
(* DataFrame.to_csv(csv_file, mode, header): a file is a sequence of       *)
(* header lines and data rows.                                             *)
(***************************************************************************)
HeaderLine == [hdr |-> TRUE, cols |-> Header, row |-> NoRecord]
DataRow(rec) == [hdr |-> FALSE, cols |-> <<>>, row |-> rec]

to_csv(file, df, mode, header) ==
  (IF mode = "w" THEN <<>> ELSE file)
  \o (IF header THEN <<HeaderLine>> ELSE <<>>)
  \o [i \in 1..Len(df) |-> DataRow(df[i])]

\* line 153 with > for >=
ChunkFull_Greater(data, size) == Len(data) > size

\* line 153
ChunkFull(data, size) == Len(data) >= size
\* lines 161, 185 with the header on every chunk
WriteHeader_Always(count) == count >= 1

\* lines 161, 185
WriteHeader(count) == count = 1
\* lines 164, 188 with every chunk opening the file for writing
WriteMode_Truncate(count) == "w"

\* lines 164, 188
WriteMode(count) == IF count > 1 THEN "a" ELSE "w"

WriteCall(count, df) == [mode |-> WriteMode(count), header |-> WriteHeader(count), rows |-> df]

(***************************************************************************)
(* convert_jsonl_to_csv                                                    *)
(***************************************************************************)
\* lines 136-145: a call, against the destination as earlier runs left it.
\* --chunk-size takes any integer; 0 is the non-positive case.
StartConvert ==
  /\ cpc = "idle"
  /\ lines' \in InputFiles
  /\ chunk_size' \in 0..MaxChunk
  /\ pos' = 0 /\ chunk_data' = <<>> /\ chunk_count' = 0 /\ total_records' = 0
  /\ yielded' = <<>> /\ writes' = <<>>
  /\ cpc' = "running"
  /\ UNCHANGED <<csv_file, nvars, lvars>>

\* lines 52-54: a blank line
SkipBlank ==
  /\ cpc = "running" /\ pos < Len(lines)
  /\ Strip(lines[pos + 1].text) = <<>>
  /\ pos' = pos + 1
  /\ UNCHANGED <<lines, chunk_size, chunk_data, chunk_count, total_records,
                 csv_file, cpc, yielded, writes, nvars, lvars>>

\* lines 56-60 with the malformed line ending the read
SkipMalformed_Break ==
  /\ cpc = "running" /\ pos < Len(lines)
  /\ Strip(lines[pos + 1].text) # <<>>
  /\ json_loads(lines[pos + 1].text, lines[pos + 1].doc).exc # ""
  /\ pos' = Len(lines)
  /\ UNCHANGED <<lines, chunk_size, chunk_data, chunk_count, total_records,
                 csv_file, cpc, yielded, writes, nvars, lvars>>

\* lines 56-60: a line json.loads rejects
SkipMalformed ==
  /\ cpc = "running" /\ pos < Len(lines)
  /\ Strip(lines[pos + 1].text) # <<>>
  /\ json_loads(lines[pos + 1].text, lines[pos + 1].doc).exc # ""
  /\ pos' = pos + 1
  /\ UNCHANGED <<lines, chunk_size, chunk_data, chunk_count, total_records,
                 csv_file, cpc, yielded, writes, nvars, lvars>>

\* lines 57 and 147-177: a record is yielded, cleaned and appended, and the
\* chunk is written when it is full
ProcessRecord ==
  /\ cpc = "running" /\ pos < Len(lines)
  /\ Strip(lines[pos + 1].text) # <<>>
  /\ LET r == json_loads(lines[pos + 1].text, lines[pos + 1].doc)
         c == clean_and_flatten_record(r.val)
         data == Append(chunk_data, c.rec)
     IN /\ r.exc = "" /\ c.exc = ""
        /\ pos' = pos + 1
        /\ yielded' = Append(yielded, r.val)
        /\ IF ChunkFull(data, chunk_size)
           THEN /\ chunk_count' = chunk_count + 1
                /\ csv_file' = to_csv(csv_file, data, WriteMode(chunk_count + 1),
                                      WriteHeader(chunk_count + 1))
                /\ writes' = Append(writes, WriteCall(chunk_count + 1, data))
                /\ total_records' = total_records + Len(data)
                /\ chunk_data' = <<>>
           ELSE /\ chunk_data' = data
                /\ UNCHANGED <<chunk_count, csv_file, writes, total_records>>
  /\ UNCHANGED <<lines, chunk_size, cpc, nvars, lvars>>

\* lines 149 and 205-207: clean_and_flatten_record raises, the run ends
CleanRaises ==
  /\ cpc = "running" /\ pos < Len(lines)
  /\ Strip(lines[pos + 1].text) # <<>>
  /\ LET r == json_loads(lines[pos + 1].text, lines[pos + 1].doc)
     IN /\ r.exc = "" /\ clean_and_flatten_record(r.val).exc # ""
        /\ yielded' = Append(yielded, r.val)
  /\ pos' = pos + 1
  /\ cpc' = "failed"
  /\ UNCHANGED <<lines, chunk_size, chunk_data, chunk_count, total_records,
                 csv_file, writes, nvars, lvars>>

\* lines 65-67 and 205-207: reading the file fails
ReadError ==
  /\ cpc = "running" /\ pos < Len(lines)
  /\ cpc' = "failed"
  /\ UNCHANGED <<lines, chunk_size, pos, chunk_data, chunk_count, total_records,
                 csv_file, yielded, writes, nvars, lvars>>

\* lines 179-203: the input is exhausted, the last chunk is written
FinishConvert ==
  /\ cpc = "running" /\ pos = Len(lines)
  /\ IF chunk_data # <<>>
     THEN /\ chunk_count' = chunk_count + 1
          /\ csv_file' = to_csv(csv_file, chunk_data, WriteMode(chunk_count + 1),
                                WriteHeader(chunk_count + 1))
          /\ writes' = Append(writes, WriteCall(chunk_count + 1, chunk_data))
          /\ total_records' = total_records + Len(chunk_data)
     ELSE UNCHANGED <<chunk_count, csv_file, writes, total_records>>
  /\ cpc' = "done"
  /\ UNCHANGED <<lines, chunk_size, pos, chunk_data, yielded, nvars, lvars>>

\* main, lines 248-253: the process exits; only the destination file remains
ExitConvert ==
  /\ cpc \in {"done", "failed"}
  /\ lines' = <<>> /\ chunk_size' = 1 /\ pos' = 0 /\ chunk_data' = <<>>
  /\ chunk_count' = 0 /\ total_records' = 0 /\ yielded' = <<>> /\ writes' = <<>>
  /\ cpc' = "idle"
  /\ UNCHANGED <<csv_file, nvars, lvars>>

InitConvert == NormIdle /\ ConvIdle /\ LoadIdle

NextConvert ==
  \/ StartConvert
  \/ SkipBlank
  \/ SkipMalformed
  \/ ProcessRecord
  \/ CleanRaises
  \/ ReadError
  \/ FinishConvert
  \/ ExitConvert

SpecConvert == InitConvert /\ [][NextConvert]_vars

(***************************************************************************)
(* data_ingestion.py.  The data file is a header and rows; a row holds the *)
(* columns of the ordering key and one numeric column.  A cell is          *)
(* [nan, v]: nan when pandas read an empty field.                          *)
(***************************************************************************)
MaxRows == 3
MaxBatch == 2
MaxLoadRuns == 2

Cell(v) == [nan |-> FALSE, v |-> v]
NaN == [nan |-> TRUE, v |-> 0]

Review1 == [asin |-> Cell("B1"), timestamp |-> Cell(1000), user_id |-> Cell("U1"),
            helpful_vote |-> NaN]
Review2 == [asin |-> Cell("B2"), timestamp |-> Cell(2000), user_id |-> Cell("U1"),
            helpful_vote |-> Cell(3)]
RowPool == {Review1, Review2}
DataFiles ==
  {[exists |-> TRUE, rows |-> r] : r \in UNION {[1..k -> RowPool] : k \in 1..MaxRows}}
  \cup {NoFile}

\* lines 127-131 and 138-141: fillna on one cell
FillNa(cell, default) == IF cell.nan THEN Cell(default) ELSE cell

\* preprocess_dataframe
preprocess_dataframe(df) ==
  [i \in 1..Len(df) |->
     [asin |-> FillNa(df[i].asin, ""),
      user_id |-> FillNa(df[i].user_id, ""),
      timestamp |-> FillNa(df[i].timestamp, 0),
      helpful_vote |-> FillNa(df[i].helpful_vote, 0)]]

\* pd.read_csv(csv_file, chunksize=batch_size): chunk number i
Chunk(rows, size, i) ==
  SubSeq(rows, (i - 1) * size + 1, IF i * size < Len(rows) THEN i * size ELSE Len(rows))
HasChunk(rows, size, i) == (i - 1) * size < Len(rows)

(***************************************************************************)
(* The sink.  The table is declared ENGINE = MergeTree() ORDER BY (asin,    *)
(* timestamp, user_id): every insert makes a data part sorted by the key,  *)
(* and a background merge rewrites the parts into one sorted part.  A      *)
(* MergeTree merge keeps every row; ReplacingMergeTree would keep the last *)
(* row of each key.                                                        *)
(***************************************************************************)
\* line 72
Engine == "MergeTree"
\* line 73
OrderKey(row) == <<row.asin.v, row.timestamp.v, row.user_id.v>>

StrOrder == <<"", "B1", "B2", "U1">>
StrRank(x) == CHOOSE i \in DOMAIN StrOrder : StrOrder[i] = x
KeyLeq(a, b) ==
  LET ka == OrderKey(a)
      kb == OrderKey(b)
  IN \/ StrRank(ka[1]) < StrRank(kb[1])
     \/ /\ ka[1] = kb[1]
        /\ \/ ka[2] < kb[2]
           \/ ka[2] = kb[2] /\ StrRank(ka[3]) <= StrRank(kb[3])

RECURSIVE InsertSorted(_, _)
InsertSorted(row, part) ==
  IF part = <<>> THEN <<row>>
  ELSE IF KeyLeq(Head(part), row) THEN <<Head(part)>> \o InsertSorted(row, Tail(part))
  ELSE <<row>> \o part

RECURSIVE SortRows(_)
SortRows(rows) ==
  IF rows = <<>> THEN <<>>
  ELSE InsertSorted(rows[Len(rows)], SortRows(SubSeq(rows, 1, Len(rows) - 1)))

RECURSIVE Flatten(_)
Flatten(ps) == IF ps = <<>> THEN <<>> ELSE Head(ps) \o Flatten(Tail(ps))

\* of rows sorted by key, the last of each key
LastOfKey(sorted) ==
  SelectSeq([i \in 1..Len(sorted) |->
               IF i < Len(sorted) /\ OrderKey(sorted[i]) = OrderKey(sorted[i + 1])
               THEN [keep |-> FALSE, row |-> sorted[i]]
               ELSE [keep |-> TRUE, row |-> sorted[i]]],
            LAMBDA m : m.keep)

MergeParts(ps) ==
  LET sorted == SortRows(Flatten(ps)) IN
  IF Engine = "ReplacingMergeTree"
  THEN [i \in 1..Len(LastOfKey(sorted)) |-> LastOfKey(sorted)[i].row]
  ELSE sorted

\* SELECT COUNT(*) FROM amazon.reviews
TotalCount == Len(Flatten(parts))
\* SELECT COUNT(*) FROM amazon.reviews WHERE (asin, timestamp, user_id) = key
CountKey(key) ==
  Cardinality({i \in 1..Len(Flatten(parts)) : OrderKey(Flatten(parts)[i]) = key})

\* a background merge of the table's parts
Merge ==
  /\ Len(parts) >= 2
  /\ parts' = <<MergeParts(parts)>>
  /\ UNCHANGED <<db_exists, table_exists, data_file, batch_size, run_no, completed,
                 rvars, nvars, cvars>>

(***************************************************************************)
(* main                                                                    *)
(***************************************************************************)
\* lines 229-233: the data file is missing
FileMissing ==
  /\ lpc = "idle" /\ run_no < MaxLoadRuns
  /\ ~data_file.exists
  /\ run_no' = run_no + 1
  /\ lpc' = "failed" /\ failed_at' = "file"
  /\ UNCHANGED <<created, existing_count, batch_count, total_rows_processed,
                 submitted, data_file, batch_size, completed, svars, nvars, cvars>>

\* lines 229-246: the data file is there, setup_clickhouse_connection is called
StartLoad ==
  /\ lpc = "idle" /\ run_no < MaxLoadRuns
  /\ data_file.exists
  /\ run_no' = run_no + 1
  /\ lpc' = "connect"
  /\ UNCHANGED <<created, failed_at, existing_count, batch_count,
                 total_rows_processed, submitted, data_file, batch_size, completed,
                 svars, nvars, cvars>>

\* lines 34-46: the configuration is read and the Query object built
Connect ==
  /\ lpc = "connect"
  /\ lpc' = "create_database"
  /\ UNCHANGED <<created, failed_at, existing_count, batch_count,
                 total_rows_processed, submitted, data_file, batch_size, run_no,
                 completed, svars, nvars, cvars>>

\* lines 34-46 and 278-280: config or Query raises
ConnectFails ==
  /\ lpc = "connect"
  /\ lpc' = "failed" /\ failed_at' = "connect"
  /\ UNCHANGED <<created, existing_count, batch_count, total_rows_processed,
                 submitted, data_file, batch_size, run_no, completed, svars, nvars,
                 cvars>>

\* lines 49-51: CREATE DATABASE IF NOT EXISTS amazon
CreateDatabase ==
  /\ lpc = "create_database"
  /\ db_exists' = TRUE
  /\ created' = created \cup {"database"}
  /\ lpc' = "create_table"
  /\ UNCHANGED <<table_exists, parts, failed_at, existing_count, batch_count,
                 total_rows_processed, submitted, data_file, batch_size, run_no,
                 completed, nvars, cvars>>

\* lines 52-54 and 278-280: the statement raises
CreateDatabaseFails ==
  /\ lpc = "create_database"
  /\ lpc' = "failed" /\ failed_at' = "database"
  /\ UNCHANGED <<created, existing_count, batch_count, total_rows_processed,
                 submitted, data_file, batch_size, run_no, completed, svars, nvars,
                 cvars>>

\* lines 77-89: CREATE TABLE IF NOT EXISTS amazon.reviews
CreateTable ==
  /\ lpc = "create_table"
  /\ table_exists' = TRUE
  /\ created' = created \cup {"table"}
  /\ lpc' = "check_existing"
  /\ UNCHANGED <<db_exists, parts, failed_at, existing_count, batch_count,
                 total_rows_processed, submitted, data_file, batch_size, run_no,
                 completed, nvars, cvars>>

\* lines 85-87 without the raise: the error is logged and setup returns
CreateTableFails_Swallow ==
  /\ lpc = "create_table"
  /\ lpc' = "check_existing" /\ failed_at' = "table"
  /\ UNCHANGED <<created, existing_count, batch_count, total_rows_processed,
                 submitted, data_file, batch_size, run_no, completed, svars, nvars,
                 cvars>>

\* lines 85-87 and 278-280: the statement raises
CreateTableFails ==
  /\ lpc = "create_table"
  /\ lpc' = "failed" /\ failed_at' = "table"
  /\ UNCHANGED <<created, existing_count, batch_count, total_rows_processed,
                 submitted, data_file, batch_size, run_no, completed, svars, nvars,
                 cvars>>

\* lines 91-122 and 249-253: the count of existing rows, 0 when a query raises
CheckExistingData ==
  /\ lpc = "check_existing"
  /\ \E ok \in BOOLEAN : existing_count' = IF ok THEN TotalCount ELSE 0
  /\ lpc' = "ingest"
  /\ UNCHANGED <<created, failed_at, batch_count, total_rows_processed, submitted,
                 data_file, batch_size, run_no, completed, svars, nvars, cvars>>

(***************************************************************************)
(* ingest_data_to_clickhouse                                               *)
(***************************************************************************)
Submission(index, ok, rows) == [index |-> index, ok |-> ok, rows |-> rows]

\* lines 160-181: the next chunk is preprocessed and written to the table
InsertBatch ==
  /\ lpc = "ingest"
  /\ HasChunk(data_file.rows, batch_size, batch_count + 1)
  /\ table_exists
  /\ LET chunk == preprocess_dataframe(Chunk(data_file.rows, batch_size, batch_count + 1))
     IN /\ batch_count' = batch_count + 1
        /\ parts' = Append(parts, SortRows(chunk))
        /\ total_rows_processed' = total_rows_processed + Len(chunk)
        /\ submitted' = Append(submitted, Submission(batch_count + 1, TRUE, chunk))
  /\ UNCHANGED <<db_exists, table_exists, lpc, created, failed_at, existing_count,
                 data_file, batch_size, run_no, completed, nvars, cvars>>

\* lines 183-186 without the raise: the failed batch is skipped, the loop goes on
InsertBatchFails_Continue ==
  /\ lpc = "ingest"
  /\ HasChunk(data_file.rows, batch_size, batch_count + 1)
  /\ LET chunk == preprocess_dataframe(Chunk(data_file.rows, batch_size, batch_count + 1))
     IN /\ batch_count' = batch_count + 1
        /\ submitted' = Append(submitted, Submission(batch_count + 1, FALSE, chunk))
  /\ UNCHANGED <<svars, lpc, failed_at, created, existing_count,
                 total_rows_processed, data_file, batch_size, run_no, completed,
                 nvars, cvars>>

\* line 177 moved ahead of sql_write: the failed batch is counted
InsertBatchFails_Counted ==
  /\ lpc = "ingest"
  /\ HasChunk(data_file.rows, batch_size, batch_count + 1)
  /\ LET chunk == preprocess_dataframe(Chunk(data_file.rows, batch_size, batch_count + 1))
     IN /\ batch_count' = batch_count + 1
        /\ total_rows_processed' = total_rows_processed + Len(chunk)
        /\ \E stored \in 0..(Len(chunk) - 1) :
             parts' = IF stored = 0 THEN parts
                      ELSE Append(parts, SortRows(SubSeq(chunk, 1, stored)))
        /\ submitted' = Append(submitted, Submission(batch_count + 1, FALSE, chunk))
  /\ lpc' = "failed" /\ failed_at' = "batch"
  /\ UNCHANGED <<db_exists, table_exists, created, existing_count,
                 data_file, batch_size, run_no, completed, nvars, cvars>>

\* lines 160-169, 183-186, 196-199 and 278-280: preprocess_dataframe or
\* sql_write raises; the sink may have stored some leading rows of the batch
InsertBatchFails ==
  /\ lpc = "ingest"
  /\ HasChunk(data_file.rows, batch_size, batch_count + 1)
  /\ LET chunk == preprocess_dataframe(Chunk(data_file.rows, batch_size, batch_count + 1))
     IN /\ batch_count' = batch_count + 1
        /\ \E stored \in 0..(Len(chunk) - 1) :
             parts' = IF stored = 0 THEN parts
                      ELSE Append(parts, SortRows(SubSeq(chunk, 1, stored)))
        /\ submitted' = Append(submitted, Submission(batch_count + 1, FALSE, chunk))
  /\ lpc' = "failed" /\ failed_at' = "batch"
  /\ UNCHANGED <<db_exists, table_exists, created, existing_count,
                 total_rows_processed, data_file, batch_size, run_no, completed,
                 nvars, cvars>>

\* lines 188-194: every chunk is written, the total is returned
FinishIngest ==
  /\ lpc = "ingest"
  /\ ~HasChunk(data_file.rows, batch_size, batch_count + 1)
  /\ lpc' = "verify"
  /\ UNCHANGED <<created, failed_at, existing_count, batch_count,
                 total_rows_processed, submitted, data_file, batch_size, run_no,
                 completed, svars, nvars, cvars>>

\* lines 201-224 and 258-276: the verification queries (a failing query is
\* logged and passed over) and the final summary
VerifyAndSummarize ==
  /\ lpc = "verify"
  /\ lpc' = "done"
  /\ completed' = completed + 1
  /\ UNCHANGED <<created, failed_at, existing_count, batch_count,
                 total_rows_processed, submitted, data_file, batch_size, run_no,
                 svars, nvars, cvars>>

\* lines 282-283: the process ends; the sink keeps its content
ExitLoad ==
  /\ lpc \in {"done", "failed"}
  /\ lpc' = "idle" /\ created' = {} /\ failed_at' = "" /\ existing_count' = 0
  /\ batch_count' = 0 /\ total_rows_processed' = 0 /\ submitted' = <<>>
  /\ UNCHANGED <<data_file, batch_size, run_no, completed, svars, nvars, cvars>>

InitLoad ==
  /\ NormIdle /\ ConvIdle
  /\ data_file \in DataFiles /\ batch_size \in 1..MaxBatch
  /\ run_no = 0 /\ completed = 0
  /\ db_exists = FALSE /\ table_exists = FALSE /\ parts = <<>>
  /\ RunIdle

NextLoad ==
  \/ FileMissing
  \/ StartLoad
  \/ Connect
  \/ ConnectFails
  \/ CreateDatabase
  \/ CreateDatabaseFails
  \/ CreateTable
  \/ CreateTableFails
  \/ CheckExistingData
  \/ InsertBatch
  \/ InsertBatchFails
  \/ FinishIngest
  \/ VerifyAndSummarize
  \/ ExitLoad
  \/ Merge

SpecLoad == InitLoad /\ [][NextLoad]_vars

(***************************************************************************)
(* Properties of the reader, the normalizer and the chunked writer         *)
(***************************************************************************)
IsPrefix(a, b) == Len(a) <= Len(b) /\ SubSeq(b, 1, Len(a)) = a

\* the lines that hold a JSON document, in input order
ValidLines(ls) == SelectSeq(ls, LAMBDA l : l.doc # 0)
\* the documents of the valid lines, in input order
DecodedValid(ls) == [i \in 1..Len(ValidLines(ls)) |-> Docs[ValidLines(ls)[i].doc]]
\* the normalized input sequence
NormalizedInput(ls) ==
  [i \in 1..Len(DecodedValid(ls)) |-> clean_and_flatten_record(DecodedValid(ls)[i]).rec]

RECURSIVE ConcatRows(_)
ConcatRows(ws) == IF ws = <<>> THEN <<>> ELSE Head(ws).rows \o ConcatRows(Tail(ws))

HeaderWrites == Cardinality({i \in DOMAIN writes : writes[i].header})
HeaderLinesInFile == Cardinality({i \in DOMAIN csv_file : csv_file[i].hdr})

\* C1: a successful run over N valid records with chunk size C >= 1 makes
\* ceil(N/C) writes, every write but the last of exactly C records, the last
\* of 1..C; the groups in write order are the normalized input in input
\* order; the returned total is N.
C1_ChunkedRoundTrip ==
  (cpc = "done" /\ chunk_size >= 1) =>
    LET expected == NormalizedInput(lines)
        N == Len(expected)
        C == chunk_size
    IN /\ Len(writes) = (N + C - 1) \div C
       /\ \A i \in 1..(Len(writes) - 1) : Len(writes[i].rows) = C
       /\ writes # <<>> => Len(writes[Len(writes)].rows) \in 1..C
       /\ ConcatRows(writes) = expected
       /\ total_records = N
       /\ csv_file = <<HeaderLine>> \o [i \in 1..N |-> DataRow(expected[i])]
            \/ N = 0

\* a run of three valid records in chunks of two: a full group, then a short one
C1_Witness ==
  /\ cpc = "done" /\ chunk_size = 2 /\ total_records = 3
  /\ Len(writes) = 2 /\ Len(writes[2].rows) = 1

\* C2 as stated: every completed run declares the header exactly once.
C2_HeaderExactlyOnce ==
  cpc = "done" => HeaderWrites = 1 /\ writes[1].header

\* C2: in every run the header is declared with the first group and with no
\* later one; a completed run that yields at least one record declares it
\* exactly once and leaves one header line, the first, in the destination; a
\* completed run that yields no record writes no group and no header.
C2_HeaderOnceWithFirstGroup ==
  /\ \A i \in DOMAIN writes : writes[i].header <=> i = 1
  /\ cpc = "done" =>
       IF yielded = <<>> THEN writes = <<>> /\ HeaderWrites = 0
       ELSE /\ HeaderWrites = 1
            /\ HeaderLinesInFile = 1 /\ csv_file[1].hdr

\* a completed run whose final group is short and follows a full one
C2_Witness ==
  /\ cpc = "done" /\ Len(writes) >= 2
  /\ Len(writes[Len(writes)].rows) < chunk_size
  /\ ~writes[Len(writes)].header

C6_NeverRaises == npc = "done" => result.exc = ""

\* C7 as stated: every field of a returned record has its declared type.
C7_FieldsTyped ==
  (npc = "done" /\ result.exc = "") =>
    \A k \in RawKeys :
      result.rec[k].t = (CASE k = "overall" -> "float"
                          [] k = "verified" -> "bool"
                          [] k = "unixReviewTime" -> "int"
                          [] OTHER -> "str")

\* s is w up to the case of its letters
SameIgnoringCase(s, w) ==
  /\ Len(s) = Len(w)
  /\ \A i \in 1..Len(s) :
       s[i] = w[i] \/ \E j \in 1..26 : LowerCase[j] = w[i] /\ UpperCase[j] = s[i]

\* the raw verified value, '' when the key is absent
RawVerified == IF raw.f["verified"] = Absent THEN EmptyStr ELSE raw.f["verified"]

\* C8: the verified field of a returned record is true iff the string form
\* of the raw value is "true", "1" or "yes" up to letter case; it is false
\* for "false", "0", "no", "" and an absent key.
C8_VerifiedCoercion ==
  (npc = "done" /\ result.exc = "") =>
    /\ result.rec["verified"].t = "bool"
    /\ result.rec["verified"].n = 1 <=>
         \E w \in {<<"t", "r", "u", "e">>, <<"1">>, <<"y", "e", "s">>} :
           SameIgnoringCase(PyStr(RawVerified), w)
    /\ raw.f["verified"] \in
         {PyStrV(<<"f", "a", "l", "s", "e">>), PyStrV(<<"0">>), PyStrV(<<"n", "o">>),
          PyStrV(<<>>), Absent}
       => result.rec["verified"] = PyBool(FALSE)

\* "TRUE" is coerced to true
C8_Witness ==
  /\ npc = "done" /\ result.exc = ""
  /\ raw.f["verified"] = PyStrV(<<"T", "R", "U", "E">>)
  /\ result.rec["verified"] = PyBool(TRUE)

\* C9 as stated: no step of a run removes or alters what the destination holds.
C9_AppendOnly == [][IsPrefix(csv_file, csv_file')]_vars

\* C9: the first group written by a run replaces the destination's content by
\* the header and that group; every other step of the run, and a run that
\* writes no group, leaves the content in place and at most appends to it.
C9_AppendOnlyAfterFirstGroup ==
  [][IF chunk_count = 0 /\ chunk_count' = 1
     THEN csv_file' = <<HeaderLine>> \o [i \in 1..Len(writes'[1].rows) |->
                                           DataRow(writes'[1].rows[i])]
     ELSE IsPrefix(csv_file, csv_file')]_vars

\* a second group has been appended behind the first
C9_Witness ==
  /\ cpc = "running" /\ chunk_count = 2
  /\ Len(csv_file) = 1 + Len(writes[1].rows) + Len(writes[2].rows)

(***************************************************************************)
(* Properties of the load                                                  *)
(***************************************************************************)
CountRow(row, rows) == Cardinality({i \in 1..Len(rows) : rows[i] = row})

RECURSIVE SubmittedRows(_, _)
SubmittedRows(subs, n) ==
  IF n = 0 THEN <<>> ELSE SubmittedRows(subs, n - 1) \o subs[n].rows

\* C3: when the insertion of batch k fails the run has ended with the error,
\* batch k is the last submission and was submitted once, every batch before
\* it was submitted once, in order, and succeeded, and the rows of batches
\* 1..k-1 are in the sink.
C3_AbortOnBatchFailure ==
  \A k \in DOMAIN submitted :
    ~submitted[k].ok =>
      /\ lpc = "failed" /\ failed_at = "batch"
      /\ k = Len(submitted) /\ batch_count = k
      /\ \A j \in 1..k :
           /\ submitted[j].index = j
           /\ submitted[j].rows =
                preprocess_dataframe(Chunk(data_file.rows, batch_size, j))
      /\ \A j \in 1..(k - 1) : submitted[j].ok
      /\ LET kept == SubmittedRows(submitted, k - 1) IN
         \A i \in 1..Len(kept) :
           CountRow(kept[i], Flatten(parts)) >= CountRow(kept[i], kept)

\* the second batch fails after the first was committed
C3_Witness ==
  /\ lpc = "failed" /\ failed_at = "batch" /\ batch_count = 2
  /\ submitted[1].ok /\ ~submitted[2].ok
  /\ TotalCount >= Len(submitted[1].rows)

\* C4 as stated: once two runs have loaded the data file and the table's
\* parts have been merged, a review that the file holds once is counted once.
C4_SingleRowAfterMerge ==
  (run_no = 2 /\ completed = 2 /\ Len(parts) = 1) =>
    LET rows == preprocess_dataframe(data_file.rows) IN
    \A i \in 1..Len(rows) :
      Cardinality({j \in 1..Len(rows) : OrderKey(rows[j]) = OrderKey(rows[i])}) = 1
        => CountKey(OrderKey(rows[i])) = 1

\* C10: a batch is submitted only after the database and the table were
\* created in this run; when either creation raises, the run has ended with
\* the error and has submitted no batch.
C10_SetupBeforeLoad ==
  /\ (submitted # <<>> \/ batch_count > 0 \/ lpc \in {"ingest", "verify", "done"}) =>
       created = {"database", "table"} /\ db_exists /\ table_exists
  /\ failed_at \in {"database", "table"} =>
       /\ lpc = "failed"
       /\ submitted = <<>> /\ batch_count = 0 /\ total_rows_processed = 0
  /\ failed_at = "database" => created = {}
  /\ failed_at = "table" => created = {"database"}

\* the table creation raises in a second run, against a sink that holds rows
C10_Witness ==
  /\ lpc = "failed" /\ failed_at = "table" /\ run_no = 2
  /\ created = {"database"} /\ submitted = <<>> /\ TotalCount > 0

\* the rows of the submissions that returned successfully
RECURSIVE RowsReturned(_)
RowsReturned(subs) ==
  IF subs = <<>> THEN 0
  ELSE (IF Head(subs).ok THEN Len(Head(subs).rows) ELSE 0) + RowsReturned(Tail(subs))

\* C11: total_rows_processed is the number of rows of the batches whose
\* insertion returned in this run; a failed batch k leaves it at the rows of
\* batches 1..k-1, and a run that wrote every batch has it at the number of
\* rows of the data file.
C11_RowsProcessedCount ==
  /\ total_rows_processed = RowsReturned(submitted)
  /\ failed_at = "batch" =>
       total_rows_processed = Len(SubmittedRows(submitted, batch_count - 1))
  /\ lpc \in {"verify", "done"} => total_rows_processed = Len(data_file.rows)

\* the second batch of a three-row file fails: the two rows of the first are counted
C11_Witness ==
  /\ lpc = "failed" /\ failed_at = "batch"
  /\ batch_size = 2 /\ Len(data_file.rows) = 3 /\ batch_count = 2
  /\ total_rows_processed = 2

=============================================================================
